---- MODULE Spec2Model ----
(***************************************************************************)
(* State-machine model of the visa-application backend: the application    *)
(* lifecycle (createApplication, submitApplication, updateApplicationStatus*)
(* with officer assignment), the personal/travel info upserts, the         *)
(* document upload / verification service, the document-request workflow, *)
(* payments (intents, webhooks, updatePaymentStatus), interviews and       *)
(* sign-up / OTP activation / login.                                       *)
(*                                                                         *)
(* Every service method is an async function: each `await prisma...` is a  *)
(* point where another request may run.  A method is therefore a sequence  *)
(* of steps held in a request slot (calls[p]): the guarded read, then each *)
(* write.  Spec runs one request at a time (one slot); the Race            *)
(* specifications run two slots, so steps of two requests interleave.      *)
(*                                                                         *)
(* now is the next reading of the clock: every write that stores           *)
(* `new Date()` (or a column's @default(now())) reads it, and the reading  *)
(* after it is later.  MaxTime bounds the number of readings.  NoDate      *)
(* stands for a null DateTime.                                             *)
(***************************************************************************)
EXTENDS Integers, Sequences, FiniteSets, TLC

\* ------------------------------------------------------------------ bounds
MaxApps == 2
MaxTime == 3
MaxDocs == 2
MaxReqs == 2
MaxPayments == 2
MaxInterviews == 2
MaxOtps == 2

\* ------------------------------------------------------------- constants
NULL == "NULL"
UNDEFINED == "UNDEFINED"
NoDate == 0
NinetyDays == 90 * 24 * 60 * 60

Applicants == {"u1", "u2"}
Officers == {"o1", "o2"}
Admins == {"ad"}
Users == Applicants \cup Officers \cup Admins
VisaTypes == {"v1", "v2"}
Status == {"PENDING", "UNDER_REVIEW", "APPROVED", "REJECTED", "SUBMITTED"}

Role(u) ==
  IF u \in Officers THEN "OFFICER"
  ELSE IF u \in Admins THEN "ADMIN"
  ELSE "APPLICANT"

\* visa type v1 is active, v2 has isActive = false
VisaTypeIsActive(v) == v = "v1"

VARIABLES apps, active, now, calls, docs, reqs,
          payments, intents, interviews, accounts, otps

\* the Payment table with the payment intents held by the payment processor,
\* and the User rows made by signup with their OTP rows
payVars == <<payments, intents>>
authVars == <<accounts, otps>>

vars == <<apps, active, now, calls, docs, reqs, payVars, interviews, authVars>>

Slots == {1, 2}
SeqSlots == {1}

\* A request slot: the method running in it, its position, its arguments,
\* its locals, and the response of the last method that ran in it.
NoCall ==
  [op |-> "none", pc |-> "idle", user |-> NULL, tgt |-> 0, a1 |-> NULL,
   a2 |-> NULL, res |-> "none", ret |-> 0, off |-> NULL, enum |-> <<>>,
   doc |-> 0, intent |-> 0, mail |-> "none"]

NewCall(op, user, tgt, a1, a2) ==
  [NoCall EXCEPT !.op = op, !.user = user, !.tgt = tgt, !.a1 = a1, !.a2 = a2]

\* the method throws (or returns) from its first step: arguments are kept
Respond(c, res, ret) == [c EXCEPT !.pc = "idle", !.res = res, !.ret = ret]

\* the method returns after its last write: locals are dropped
Return(c, ret) ==
  [c EXCEPT !.pc = "idle", !.res = "ok", !.ret = ret, !.a1 = NULL, !.a2 = NULL,
            !.off = NULL, !.enum = <<>>]

Idle(p) == calls[p].pc = "idle"

\* try { await MailUtil.send...Email(...) } catch (error) { console.error(...) }
\* without the catch: a failed delivery is thrown to the caller
TryEmail_NoCatch(c, delivered) ==
  IF delivered THEN [c EXCEPT !.mail = "sent"]
  ELSE [c EXCEPT !.mail = "failed", !.pc = "idle", !.res = "InternalError", !.ret = 0]

\* the notification after the write: the delivery succeeds or fails, and a
\* failure is caught and logged
TryEmail(c, delivered) ==
  [c EXCEPT !.mail = IF delivered THEN "sent" ELSE "failed"]

\* the first row of a non-empty set of row ids, in table order
First(S) == CHOOSE i \in S : \A j \in S : i <= j

NewApplication(u, v) ==
  [userId |-> u, visaTypeId |-> v, status |-> "PENDING",
   submissionDate |-> NoDate, decisionDate |-> NoDate, expiryDate |-> NoDate,
   rejectionReason |-> NULL, officerId |-> NULL,
   personalInfo |-> FALSE, travelInfo |-> FALSE, paymentId |-> 0]

\* ------------------------------------------------------ createApplication
\* createApplication without the lookup of an existing draft
ExistingApplication_NoLookup(as, u, v) == {}

\* findFirst({userId, visaTypeId, status: 'PENDING', submissionDate: null}):
\* the rows that match; findFirst returns the first of them in table order
ExistingApplication(as, u, v) ==
  {i \in 1..Len(as) : /\ as[i].userId = u
                      /\ as[i].visaTypeId = v
                      /\ as[i].status = "PENDING"
                      /\ as[i].submissionDate = NoDate}

CreateChecks(u, v) ==
  IF u \notin Users THEN "NotFound"
  ELSE IF v \notin VisaTypes \/ ~VisaTypeIsActive(v) THEN "NotFound"
  ELSE "ok"

createApplication_check(p, u, v) ==
  /\ Idle(p)
  /\ LET c == NewCall("createApplication", u, 0, v, NULL)
         ex == ExistingApplication(apps, u, v)
     IN IF CreateChecks(u, v) # "ok"
        THEN calls' = [calls EXCEPT ![p] = Respond(c, CreateChecks(u, v), 0)]
        ELSE IF ex # {}
        THEN calls' = [calls EXCEPT ![p] = Respond(c, "ok", First(ex))]
        ELSE calls' = [calls EXCEPT ![p] = [c EXCEPT !.pc = "insert"]]
  /\ UNCHANGED <<apps, active, now, docs, reqs, payVars, interviews, authVars>>

createApplication_insert(p) ==
  /\ calls[p].op = "createApplication" /\ calls[p].pc = "insert"
  /\ Len(apps) < MaxApps
  /\ apps' = Append(apps, NewApplication(calls[p].user, calls[p].a1))
  /\ calls' = [calls EXCEPT ![p] = Return(calls[p], Len(apps) + 1)]
  /\ UNCHANGED <<active, now, docs, reqs, payVars, interviews, authVars>>

\* ---------------------------------------------- personal and travel info
\* personalInfo.upsert({where: {userId}, ... application: {connect: {id}}}):
\* a user has one PersonalInfo row; connecting it to this application takes
\* it away from the application it was connected to.
ConnectPersonalInfo(as, u, a) ==
  [i \in 1..Len(as) |->
     IF i = a THEN [as[i] EXCEPT !.personalInfo = TRUE]
     ELSE IF as[i].userId = u THEN [as[i] EXCEPT !.personalInfo = FALSE]
     ELSE as[i]]

InfoChecks(as, u, a, valid) ==
  IF a \notin 1..Len(as) THEN "NotFound"
  ELSE IF as[a].userId # u THEN "Forbidden"
  ELSE IF ~valid THEN "BadRequest"
  ELSE "ok"

createOrUpdatePersonalInfo_check(p, u, a, valid) ==
  /\ Idle(p)
  /\ LET c == NewCall("createOrUpdatePersonalInfo", u, a, NULL, NULL)
         r == InfoChecks(apps, u, a, valid)
     IN calls' = [calls EXCEPT ![p] =
                    IF r = "ok" THEN [c EXCEPT !.pc = "upsert"] ELSE Respond(c, r, 0)]
  /\ UNCHANGED <<apps, active, now, docs, reqs, payVars, interviews, authVars>>

createOrUpdatePersonalInfo_upsert(p) ==
  /\ calls[p].op = "createOrUpdatePersonalInfo" /\ calls[p].pc = "upsert"
  /\ apps' = ConnectPersonalInfo(apps, calls[p].user, calls[p].tgt)
  /\ calls' = [calls EXCEPT ![p] = Return(calls[p], calls[p].tgt)]
  /\ UNCHANGED <<active, now, docs, reqs, payVars, interviews, authVars>>

createOrUpdateTravelInfo_check(p, u, a, valid) ==
  /\ Idle(p)
  /\ LET c == NewCall("createOrUpdateTravelInfo", u, a, NULL, NULL)
         r == InfoChecks(apps, u, a, valid)
     IN calls' = [calls EXCEPT ![p] =
                    IF r = "ok" THEN [c EXCEPT !.pc = "upsert"] ELSE Respond(c, r, 0)]
  /\ UNCHANGED <<apps, active, now, docs, reqs, payVars, interviews, authVars>>

createOrUpdateTravelInfo_upsert(p) ==
  /\ calls[p].op = "createOrUpdateTravelInfo" /\ calls[p].pc = "upsert"
  /\ apps' = [apps EXCEPT ![calls[p].tgt].travelInfo = TRUE]
  /\ calls' = [calls EXCEPT ![p] = Return(calls[p], calls[p].tgt)]
  /\ UNCHANGED <<active, now, docs, reqs, payVars, interviews, authVars>>

\* ------------------------------------------------------ officer assignment
\* count({officerId, status in [SUBMITTED, UNDER_REVIEW]})
Workload(as, o) ==
  Cardinality({i \in 1..Len(as) : /\ as[i].officerId = o
                                  /\ as[i].status \in {"SUBMITTED", "UNDER_REVIEW"}})

\* the orders in which findMany may return the set S of rows
Enumerations(S) ==
  {e \in [1..Cardinality(S) -> S] : \A i, j \in 1..Cardinality(S) : i # j => e[i] # e[j]}

\* the enumeration without the isActive filter
ActiveOfficers_AnyOfficer == Officers

\* findMany({where: {role: 'OFFICER', isActive: true}})
ActiveOfficers == {o \in Officers : active[o]}

\* officerWorkloads.sort((a, b) => a.applicationCount - b.applicationCount):
\* Array.prototype.sort is stable; Insert puts x after every element whose
\* count is not greater, so equal counts keep their enumeration order
RECURSIVE Insert(_, _, _)
Insert(x, sorted, as) ==
  IF sorted = <<>> THEN <<x>>
  ELSE IF Workload(as, Head(sorted)) <= Workload(as, x)
       THEN <<Head(sorted)>> \o Insert(x, Tail(sorted), as)
       ELSE <<x>> \o sorted

RECURSIVE SortByCount(_, _)
SortByCount(enum, as) ==
  IF enum = <<>> THEN <<>>
  ELSE Insert(enum[Len(enum)], SortByCount(SubSeq(enum, 1, Len(enum) - 1), as), as)

\* assignment without the sort: the first officer enumerated
AssignedOfficer_Unsorted(enum, as) ==
  IF Len(enum) = 0 THEN NULL ELSE enum[1]

\* assignment to the last officer of the sorted list, the most loaded one
AssignedOfficer_MostLoaded(enum, as) ==
  IF Len(enum) = 0 THEN NULL ELSE SortByCount(enum, as)[Len(enum)]

\* if (officers.length === 0) return null; ... return sorted[0]
AssignedOfficer(enum, as) ==
  IF Len(enum) = 0 THEN NULL ELSE SortByCount(enum, as)[1]

\* ------------------------------------------------------ submitApplication
\* submission gated on the personal info only
SubmitChecks_NoTravelInfo(as, u, a) ==
  IF a \notin 1..Len(as) THEN "NotFound"
  ELSE IF as[a].userId # u THEN "Forbidden"
  ELSE IF as[a].status # "PENDING" THEN "BadRequest"
  ELSE IF ~as[a].personalInfo THEN "BadRequest"
  ELSE "ok"

SubmitChecks(as, u, a) ==
  IF a \notin 1..Len(as) THEN "NotFound"
  ELSE IF as[a].userId # u THEN "Forbidden"
  ELSE IF as[a].status # "PENDING" THEN "BadRequest"
  ELSE IF ~as[a].personalInfo \/ ~as[a].travelInfo THEN "BadRequest"
  ELSE "ok"

submitApplication_check(p, u, a) ==
  /\ Idle(p)
  /\ LET c == NewCall("submitApplication", u, a, NULL, NULL)
         r == SubmitChecks(apps, u, a)
     IN calls' = [calls EXCEPT ![p] =
                    IF r = "ok" THEN [c EXCEPT !.pc = "assign"] ELSE Respond(c, r, 0)]
  /\ UNCHANGED <<apps, active, now, docs, reqs, payVars, interviews, authVars>>

assignOfficerToApplication(p) ==
  /\ calls[p].op = "submitApplication" /\ calls[p].pc = "assign"
  /\ \E enum \in Enumerations(ActiveOfficers) :
       calls' = [calls EXCEPT ![p] = [calls[p] EXCEPT !.pc = "update",
                                                       !.enum = enum,
                                                       !.off = AssignedOfficer(enum, apps)]]
  /\ UNCHANGED <<apps, active, now, docs, reqs, payVars, interviews, authVars>>

SubmitData(app, t, officer) ==
  [app EXCEPT !.status = "SUBMITTED", !.submissionDate = t, !.officerId = officer]

submitApplication_update(p, delivered) ==
  /\ calls[p].op = "submitApplication" /\ calls[p].pc = "update"
  /\ now <= MaxTime
  /\ apps' = [apps EXCEPT ![calls[p].tgt] = SubmitData(@, now, calls[p].off)]
  /\ calls' = [calls EXCEPT ![p] = TryEmail(Return(calls[p], calls[p].tgt), delivered)]
  /\ now' = now + 1
  /\ UNCHANGED <<active, docs, reqs, payVars, interviews, authVars>>

\* ------------------------------------------------ updateApplicationStatus
\* the status update without the check against the current status
StatusChecks_NoSameStatus(as, officer, a, status) ==
  IF officer \notin Users \/ Role(officer) \notin {"ADMIN", "OFFICER"} THEN "Forbidden"
  ELSE IF a \notin 1..Len(as) THEN "NotFound"
  ELSE "ok"

StatusChecks(as, officer, a, status) ==
  IF officer \notin Users \/ Role(officer) \notin {"ADMIN", "OFFICER"} THEN "Forbidden"
  ELSE IF a \notin 1..Len(as) THEN "NotFound"
  ELSE IF as[a].status = status THEN "BadRequest"
  ELSE "ok"

\* the status update writing rejectionReason only when one is given
StatusData_KeepsReason(app, status, rejectionReason, t) ==
  [app EXCEPT !.status = status,
              !.decisionDate = t,
              !.rejectionReason = IF status = "REJECTED" /\ rejectionReason # UNDEFINED
                                  THEN rejectionReason ELSE @,
              !.expiryDate = IF status = "APPROVED" THEN t + NinetyDays ELSE NoDate]

\* data: {status, decisionDate: new Date(),
\*        rejectionReason: status === REJECTED ? rejectionReason : null,
\*        expiryDate: status === APPROVED ? now + 90 days : null}
\* An undefined value in `data` leaves the column as it is.
StatusData(app, status, rejectionReason, t) ==
  [app EXCEPT !.status = status,
              !.decisionDate = t,
              !.rejectionReason = IF status = "REJECTED"
                                  THEN (IF rejectionReason = UNDEFINED THEN @ ELSE rejectionReason)
                                  ELSE NULL,
              !.expiryDate = IF status = "APPROVED" THEN t + NinetyDays ELSE NoDate]

updateApplicationStatus_check(p, officer, a, status, rejectionReason) ==
  /\ Idle(p)
  /\ LET c == NewCall("updateApplicationStatus", officer, a, status, rejectionReason)
         r == StatusChecks(apps, officer, a, status)
     IN calls' = [calls EXCEPT ![p] =
                    IF r = "ok" THEN [c EXCEPT !.pc = "update"] ELSE Respond(c, r, 0)]
  /\ UNCHANGED <<apps, active, now, docs, reqs, payVars, interviews, authVars>>

updateApplicationStatus_update(p, delivered) ==
  /\ calls[p].op = "updateApplicationStatus" /\ calls[p].pc = "update"
  /\ now <= MaxTime
  /\ apps' = [apps EXCEPT ![calls[p].tgt] = StatusData(@, calls[p].a1, calls[p].a2, now)]
  /\ calls' = [calls EXCEPT ![p] = TryEmail(Return(calls[p], calls[p].tgt), delivered)]
  /\ now' = now + 1
  /\ UNCHANGED <<active, docs, reqs, payVars, interviews, authVars>>

\* ------------------------------------------------------------- updateUser
\* an admin sets an officer's isActive
updateUser(p, o, isActive) ==
  /\ Idle(p)
  /\ active' = [active EXCEPT ![o] = isActive]
  /\ UNCHANGED <<apps, now, calls, docs, reqs, payVars, interviews, authVars>>

\* ---------------------------------------------------------- uploadDocument
\* two of the thirteen allowed document types
ALLOWED_DOCUMENT_TYPES == {"passportCopy", "photos"}

\* file stands for the three values fileName, filePath and fileSize
NewDocument(a, type, file, t) ==
  [applicationId |-> a, documentType |-> type, file |-> file,
   verificationStatus |-> "PENDING", verifiedBy |-> NULL, verifiedAt |-> NoDate,
   rejectionReason |-> NULL, uploadDate |-> t]

UploadChecks(as, u, a, type) ==
  IF type \notin ALLOWED_DOCUMENT_TYPES THEN "BadRequest"
  ELSE IF a \notin 1..Len(as) THEN "NotFound"
  ELSE IF as[a].userId # u THEN "Forbidden"
  ELSE "ok"

\* the upload whose find never matches (it compares a field rows lack)
ExistingDocuments_NoMatch(ds, a, type) == {}

\* application.documents.find(doc => doc.documentType === data.documentType):
\* the rows find may return; the include has no orderBy, so which of several
\* rows of the type comes first is the store's choice
ExistingDocuments(ds, a, type) ==
  {d \in 1..Len(ds) : ds[d].applicationId = a /\ ds[d].documentType = type}

uploadDocument_check(p, u, a, type, file) ==
  /\ Idle(p)
  /\ LET c == NewCall("uploadDocument", u, a, type, file)
         r == UploadChecks(apps, u, a, type)
         ex == ExistingDocuments(docs, a, type)
     IN IF r # "ok"
        THEN calls' = [calls EXCEPT ![p] = Respond(c, r, 0)]
        ELSE IF ex = {}
        THEN calls' = [calls EXCEPT ![p] = [c EXCEPT !.pc = "create"]]
        ELSE \E d \in ex :
               calls' = [calls EXCEPT ![p] = [c EXCEPT !.pc = "update", !.doc = d]]
  /\ UNCHANGED <<apps, active, now, docs, reqs, payVars, interviews, authVars>>

UploadData(doc, file, t) ==
  [doc EXCEPT !.file = file, !.verificationStatus = "PENDING", !.verifiedBy = NULL,
              !.verifiedAt = NoDate, !.rejectionReason = NULL, !.uploadDate = t]

uploadDocument_update(p) ==
  /\ calls[p].op = "uploadDocument" /\ calls[p].pc = "update"
  /\ now <= MaxTime
  /\ docs' = [docs EXCEPT ![calls[p].doc] = UploadData(@, calls[p].a2, now)]
  /\ calls' = [calls EXCEPT ![p] = Return(calls[p], calls[p].doc)]
  /\ now' = now + 1
  /\ UNCHANGED <<apps, active, reqs, payVars, interviews, authVars>>

uploadDocument_create(p) ==
  /\ calls[p].op = "uploadDocument" /\ calls[p].pc = "create"
  /\ now <= MaxTime /\ Len(docs) < MaxDocs
  /\ docs' = Append(docs, NewDocument(calls[p].tgt, calls[p].a1, calls[p].a2, now))
  /\ calls' = [calls EXCEPT ![p] = [Return(calls[p], Len(docs) + 1) EXCEPT !.doc = Len(docs) + 1]]
  /\ now' = now + 1
  /\ UNCHANGED <<apps, active, reqs, payVars, interviews, authVars>>

\* ---------------------------------------------------------- verifyDocument
\* the verification without the check of the caller's role
VerifyChecks_AnyCaller(ds, officer, d) ==
  IF d \notin 1..Len(ds) THEN "NotFound" ELSE "ok"

VerifyChecks(ds, officer, d) ==
  IF officer \notin Users \/ Role(officer) \notin {"ADMIN", "OFFICER"} THEN "Forbidden"
  ELSE IF d \notin 1..Len(ds) THEN "NotFound"
  ELSE "ok"

VerifyData(doc, officer, isApproved, rejectionReason, t) ==
  [doc EXCEPT !.verificationStatus = IF isApproved THEN "VERIFIED" ELSE "REJECTED",
              !.verifiedBy = officer,
              !.verifiedAt = t,
              !.rejectionReason = IF isApproved THEN NULL
                                  ELSE IF rejectionReason = UNDEFINED THEN @
                                  ELSE rejectionReason]

verifyDocument_check(p, officer, d, isApproved, rejectionReason) ==
  /\ Idle(p)
  /\ LET c == NewCall("verifyDocument", officer, d, isApproved, rejectionReason)
         r == VerifyChecks(docs, officer, d)
     IN calls' = [calls EXCEPT ![p] =
                    IF r = "ok" THEN [c EXCEPT !.pc = "update"] ELSE Respond(c, r, 0)]
  /\ UNCHANGED <<apps, active, now, docs, reqs, payVars, interviews, authVars>>

verifyDocument_update(p) ==
  /\ calls[p].op = "verifyDocument" /\ calls[p].pc = "update"
  /\ now <= MaxTime
  /\ docs' = [docs EXCEPT ![calls[p].tgt] =
                VerifyData(@, calls[p].user, calls[p].a1, calls[p].a2, now)]
  /\ calls' = [calls EXCEPT ![p] = Return(calls[p], calls[p].tgt)]
  /\ now' = now + 1
  /\ UNCHANGED <<apps, active, reqs, payVars, interviews, authVars>>

\* ------------------------------------------------------- document requests
NewRequest(a, name, officer) ==
  [applicationId |-> a, documentName |-> name, officerId |-> officer,
   status |-> "SENT", documentId |-> 0]

CreateRequestChecks(as, officer, a) ==
  IF officer \notin Users \/ Role(officer) \notin {"ADMIN", "OFFICER"} THEN "Forbidden"
  ELSE IF a \notin 1..Len(as) THEN "NotFound"
  ELSE "ok"

createRequestForDocument_check(p, officer, a, name) ==
  /\ Idle(p)
  /\ LET c == NewCall("createRequestForDocument", officer, a, name, NULL)
         r == CreateRequestChecks(apps, officer, a)
     IN calls' = [calls EXCEPT ![p] =
                    IF r = "ok" THEN [c EXCEPT !.pc = "create"] ELSE Respond(c, r, 0)]
  /\ UNCHANGED <<apps, active, now, docs, reqs, payVars, interviews, authVars>>

createRequestForDocument_create(p) ==
  /\ calls[p].op = "createRequestForDocument" /\ calls[p].pc = "create"
  /\ Len(reqs) < MaxReqs
  /\ reqs' = Append(reqs, NewRequest(calls[p].tgt, calls[p].a1, calls[p].user))
  /\ calls' = [calls EXCEPT ![p] = Return(calls[p], Len(reqs) + 1)]
  /\ UNCHANGED <<apps, active, now, docs, payVars, interviews, authVars>>

UpdateRequestChecks(rs, officer, r) ==
  IF officer \notin Users \/ Role(officer) \notin {"ADMIN", "OFFICER"} THEN "Forbidden"
  ELSE IF r \notin 1..Len(rs) THEN "NotFound"
  ELSE IF rs[r].officerId # officer THEN "Forbidden"
  ELSE IF rs[r].status # "SENT" THEN "BadRequest"
  ELSE "ok"

updateRequestForDocument_check(p, officer, r, name) ==
  /\ Idle(p)
  /\ LET c == NewCall("updateRequestForDocument", officer, r, name, NULL)
         k == UpdateRequestChecks(reqs, officer, r)
     IN calls' = [calls EXCEPT ![p] =
                    IF k = "ok" THEN [c EXCEPT !.pc = "update"] ELSE Respond(c, k, 0)]
  /\ UNCHANGED <<apps, active, now, docs, reqs, payVars, interviews, authVars>>

\* data: {documentName, additionalDetails}: the status is not written
updateRequestForDocument_update(p) ==
  /\ calls[p].op = "updateRequestForDocument" /\ calls[p].pc = "update"
  /\ reqs' = [reqs EXCEPT ![calls[p].tgt].documentName =
                IF calls[p].a1 = UNDEFINED THEN @ ELSE calls[p].a1]
  /\ calls' = [calls EXCEPT ![p] = Return(calls[p], calls[p].tgt)]
  /\ UNCHANGED <<apps, active, now, docs, payVars, interviews, authVars>>

CancelRequestChecks(rs, officer, r) ==
  IF officer \notin Users \/ Role(officer) \notin {"ADMIN", "OFFICER"} THEN "Forbidden"
  ELSE IF r \notin 1..Len(rs) THEN "NotFound"
  ELSE IF rs[r].officerId # officer THEN "Forbidden"
  ELSE IF rs[r].status = "SUBMITTED" THEN "BadRequest"
  ELSE IF rs[r].status = "CANCELLED" THEN "BadRequest"
  ELSE "ok"

cancelRequestForDocument_check(p, officer, r) ==
  /\ Idle(p)
  /\ LET c == NewCall("cancelRequestForDocument", officer, r, NULL, NULL)
         k == CancelRequestChecks(reqs, officer, r)
     IN calls' = [calls EXCEPT ![p] =
                    IF k = "ok" THEN [c EXCEPT !.pc = "update"] ELSE Respond(c, k, 0)]
  /\ UNCHANGED <<apps, active, now, docs, reqs, payVars, interviews, authVars>>

cancelRequestForDocument_update(p) ==
  /\ calls[p].op = "cancelRequestForDocument" /\ calls[p].pc = "update"
  /\ reqs' = [reqs EXCEPT ![calls[p].tgt].status = "CANCELLED"]
  /\ calls' = [calls EXCEPT ![p] = Return(calls[p], calls[p].tgt)]
  /\ UNCHANGED <<apps, active, now, docs, payVars, interviews, authVars>>

SubmitDocumentChecks(as, rs, u, r) ==
  IF u \notin Users THEN "NotFound"
  ELSE IF r \notin 1..Len(rs) THEN "NotFound"
  ELSE IF as[rs[r].applicationId].userId # u THEN "Forbidden"
  ELSE IF rs[r].status = "CANCELLED" THEN "BadRequest"
  ELSE IF rs[r].status = "SUBMITTED" THEN "BadRequest"
  ELSE "ok"

submitDocumentForRequest_check(p, u, r, type, file) ==
  /\ Idle(p)
  /\ LET c == NewCall("submitDocumentForRequest", u, r, type, file)
         k == SubmitDocumentChecks(apps, reqs, u, r)
     IN calls' = [calls EXCEPT ![p] =
                    IF k = "ok" THEN [c EXCEPT !.pc = "create"] ELSE Respond(c, k, 0)]
  /\ UNCHANGED <<apps, active, now, docs, reqs, payVars, interviews, authVars>>

\* const document = await prisma.document.create(...): the first write
submitDocumentForRequest_create(p) ==
  /\ calls[p].op = "submitDocumentForRequest" /\ calls[p].pc = "create"
  /\ now <= MaxTime /\ Len(docs) < MaxDocs
  /\ docs' = Append(docs, NewDocument(reqs[calls[p].tgt].applicationId,
                                      calls[p].a1, calls[p].a2, now))
  /\ calls' = [calls EXCEPT ![p] = [calls[p] EXCEPT !.pc = "update", !.doc = Len(docs) + 1]]
  /\ now' = now + 1
  /\ UNCHANGED <<apps, active, reqs, payVars, interviews, authVars>>

\* await prisma.requestForDocument.update({status: SUBMITTED, documentId}):
\* the second write, a statement of its own
submitDocumentForRequest_update(p) ==
  /\ calls[p].op = "submitDocumentForRequest" /\ calls[p].pc = "update"
  /\ reqs' = [reqs EXCEPT ![calls[p].tgt].status = "SUBMITTED",
                          ![calls[p].tgt].documentId = calls[p].doc]
  /\ calls' = [calls EXCEPT ![p] = Return(calls[p], calls[p].tgt)]
  /\ UNCHANGED <<apps, active, now, docs, payVars, interviews, authVars>>

\* the second write is rejected by the store (connection lost, timeout): the
\* method throws, nothing undoes the first write
submitDocumentForRequest_updateFails(p) ==
  /\ calls[p].op = "submitDocumentForRequest" /\ calls[p].pc = "update"
  /\ calls' = [calls EXCEPT ![p] = Respond(calls[p], "InternalError", 0)]
  /\ UNCHANGED <<apps, active, now, docs, reqs, payVars, interviews, authVars>>

\* ----------------------------------------------------------------- payments
\* A Payment row has no application column: the relation is the application's
\* unique paymentId.  The payment processor keeps each intent with the
\* metadata it was created with and whether an attempt on it has failed.
NewPayment(u, intent) ==
  [userId |-> u, paymentStatus |-> "PENDING", stripePaymentId |-> intent]

NewIntent(a, u) ==
  [applicationId |-> a, userId |-> u, status |-> "requires_payment_method",
   failed |-> FALSE]

\* payment.findFirst({application: {id}, paymentStatus: 'COMPLETED'})
ExistingPayment(as, ps, a) ==
  {k \in 1..Len(ps) : as[a].paymentId = k /\ ps[k].paymentStatus = "COMPLETED"}

PaymentIntentChecks(as, ps, u, a) ==
  IF a \notin 1..Len(as) THEN "NotFound"
  ELSE IF as[a].userId # u THEN "BadRequest"
  ELSE IF ExistingPayment(as, ps, a) # {} THEN "BadRequest"
  ELSE "ok"

createPaymentIntent_check(p, u, a) ==
  /\ Idle(p)
  /\ LET c == NewCall("createPaymentIntent", u, a, NULL, NULL)
         r == PaymentIntentChecks(apps, payments, u, a)
     IN calls' = [calls EXCEPT ![p] =
                    IF r = "ok" THEN [c EXCEPT !.pc = "intent"] ELSE Respond(c, r, 0)]
  /\ UNCHANGED <<apps, active, now, docs, reqs, payVars, interviews, authVars>>

\* await stripe.paymentIntents.create({metadata: {applicationId, userId}})
createPaymentIntent_intent(p) ==
  /\ calls[p].op = "createPaymentIntent" /\ calls[p].pc = "intent"
  /\ Len(intents) < MaxPayments
  /\ intents' = Append(intents, NewIntent(calls[p].tgt, calls[p].user))
  /\ calls' = [calls EXCEPT ![p] = [calls[p] EXCEPT !.pc = "create",
                                                   !.intent = Len(intents) + 1]]
  /\ UNCHANGED <<apps, active, now, docs, reqs, payments, interviews, authVars>>

\* payment.create({... application: {connect: {id}}}): the application's
\* paymentId now names the new row; the row it named before is left without
\* an application
createPaymentIntent_create(p) ==
  /\ calls[p].op = "createPaymentIntent" /\ calls[p].pc = "create"
  /\ payments' = Append(payments, NewPayment(calls[p].user, calls[p].intent))
  /\ apps' = [apps EXCEPT ![calls[p].tgt].paymentId = Len(payments) + 1]
  /\ calls' = [calls EXCEPT ![p] = Return(calls[p], Len(payments) + 1)]
  /\ UNCHANGED <<active, now, docs, reqs, intents, interviews, authVars>>

\* the customer attempts to pay an intent that has not succeeded: the card is
\* accepted or declined (a declined intent can be tried again)
confirmPayment(i, accepted) ==
  /\ i \in 1..Len(intents)
  /\ intents[i].status # "succeeded"
  /\ intents' = [intents EXCEPT ![i] =
                   IF accepted THEN [@ EXCEPT !.status = "succeeded"]
                   ELSE [@ EXCEPT !.failed = TRUE]]
  /\ UNCHANGED <<apps, active, now, calls, docs, reqs, payments, interviews, authVars>>

\* the rows payment.update({where: {stripePaymentId}}) addresses (the column
\* is unique)
PaymentOfIntent(ps, i) == {k \in 1..Len(ps) : ps[k].stripePaymentId = i}

\* handleWebhook, event payment_intent.succeeded: handleSuccessfulPayment
\* starts with payment.update, which throws when no row has the id.  Events
\* are delivered at least once and in any order.
handleSuccessfulPayment_payment(p, i) ==
  /\ Idle(p)
  /\ i \in 1..Len(intents) /\ intents[i].status = "succeeded"
  /\ LET c == NewCall("handleSuccessfulPayment", NULL, intents[i].applicationId, NULL, NULL)
         ks == PaymentOfIntent(payments, i)
     IN IF ks = {}
        THEN /\ calls' = [calls EXCEPT ![p] = Respond(c, "InternalError", 0)]
             /\ UNCHANGED payments
        ELSE /\ payments' = [payments EXCEPT ![First(ks)].paymentStatus = "COMPLETED"]
             /\ calls' = [calls EXCEPT ![p] = [c EXCEPT !.pc = "application",
                                                      !.intent = i]]
  /\ UNCHANGED <<apps, active, now, docs, reqs, intents, interviews, authVars>>

\* visaApplication.update({where: {id: applicationId}, data: {status: 'SUBMITTED'}})
handleSuccessfulPayment_application(p) ==
  /\ calls[p].op = "handleSuccessfulPayment" /\ calls[p].pc = "application"
  /\ apps' = [apps EXCEPT ![calls[p].tgt].status = "SUBMITTED"]
  /\ calls' = [calls EXCEPT ![p] = Return(calls[p], calls[p].tgt)]
  /\ UNCHANGED <<active, now, docs, reqs, payVars, interviews, authVars>>

\* handleWebhook, event payment_intent.payment_failed
handleFailedPayment(p, i) ==
  /\ Idle(p)
  /\ i \in 1..Len(intents) /\ intents[i].failed
  /\ LET c == NewCall("handleFailedPayment", NULL, 0, NULL, NULL)
         ks == PaymentOfIntent(payments, i)
     IN IF ks = {}
        THEN /\ calls' = [calls EXCEPT ![p] = Respond(c, "InternalError", 0)]
             /\ UNCHANGED payments
        ELSE /\ payments' = [payments EXCEPT ![First(ks)].paymentStatus = "FAILED"]
             /\ calls' = [calls EXCEPT ![p] = [Return(c, First(ks)) EXCEPT !.intent = i]]
  /\ UNCHANGED <<apps, active, now, docs, reqs, intents, interviews, authVars>>

\* the application a payment row belongs to (include: {application: true}),
\* 0 when none
ApplicationOfPayment(as, k) ==
  IF \E a \in 1..Len(as) : as[a].paymentId = k
  THEN CHOOSE a \in 1..Len(as) : as[a].paymentId = k
  ELSE 0

\* findUnique({where: {id: paymentId}, include: {application: true}})
updatePaymentStatus_check(p, paymentId, stripePaymentId) ==
  /\ Idle(p)
  /\ LET c == NewCall("updatePaymentStatus", NULL, paymentId, stripePaymentId, NULL)
     IN calls' = [calls EXCEPT ![p] =
                    IF paymentId \notin 1..Len(payments)
                    THEN Respond(c, "NotFound", 0)
                    ELSE [c EXCEPT !.pc = "retrieve",
                                   !.a2 = ApplicationOfPayment(apps, paymentId)]]
  /\ UNCHANGED <<apps, active, now, docs, reqs, payVars, interviews, authVars>>

\* stripe.paymentIntents.retrieve(stripePaymentId): an unknown id is an error
\* of the processor's; any status but succeeded is a BadRequest
updatePaymentStatus_retrieve(p) ==
  /\ calls[p].op = "updatePaymentStatus" /\ calls[p].pc = "retrieve"
  /\ calls' = [calls EXCEPT ![p] =
                 IF calls[p].a1 \notin 1..Len(intents)
                 THEN Respond(calls[p], "InternalError", 0)
                 ELSE IF intents[calls[p].a1].status # "succeeded"
                 THEN Respond(calls[p], "BadRequest", 0)
                 ELSE [calls[p] EXCEPT !.pc = "update"]]
  /\ UNCHANGED <<apps, active, now, docs, reqs, payVars, interviews, authVars>>

\* payment.update({where: {id}, data: {paymentStatus: 'COMPLETED',
\* stripePaymentId}}): stripePaymentId is unique, so the update throws when
\* another row holds the id
updatePaymentStatus_update(p) ==
  /\ calls[p].op = "updatePaymentStatus" /\ calls[p].pc = "update"
  /\ IF PaymentOfIntent(payments, calls[p].a1) \ {calls[p].tgt} # {}
     THEN /\ calls' = [calls EXCEPT ![p] = Respond(calls[p], "InternalError", 0)]
          /\ UNCHANGED payments
     ELSE /\ payments' = [payments EXCEPT ![calls[p].tgt].paymentStatus = "COMPLETED",
                                          ![calls[p].tgt].stripePaymentId = calls[p].a1]
          /\ calls' = [calls EXCEPT ![p] =
                         IF calls[p].a2 = 0 THEN Return(calls[p], calls[p].tgt)
                         ELSE [calls[p] EXCEPT !.pc = "application"]]
  /\ UNCHANGED <<apps, active, now, docs, reqs, intents, interviews, authVars>>

\* if (payment.application) visaApplication.update({data: {status: 'SUBMITTED'}})
updatePaymentStatus_application(p) ==
  /\ calls[p].op = "updatePaymentStatus" /\ calls[p].pc = "application"
  /\ apps' = [apps EXCEPT ![calls[p].a2].status = "SUBMITTED"]
  /\ calls' = [calls EXCEPT ![p] = Return(calls[p], calls[p].tgt)]
  /\ UNCHANGED <<active, now, docs, reqs, payVars, interviews, authVars>>

\* --------------------------------------------------------------- interviews
NewInterview(a, assignedOfficer, scheduler, date) ==
  [applicationId |-> a, assignedOfficerId |-> assignedOfficer,
   schedulerId |-> scheduler, scheduledDate |-> date, status |-> "SCHEDULED",
   confirmed |-> FALSE, confirmedAt |-> NoDate, outcome |-> NULL]

\* interview.findFirst({applicationId, status: {in: ['SCHEDULED', 'RESCHEDULED']}})
ExistingInterview(is, a) ==
  {k \in 1..Len(is) : /\ is[k].applicationId = a
                      /\ is[k].status \in {"SCHEDULED", "RESCHEDULED"}}

CreateInterviewChecks(as, is, scheduler, a, assignedOfficer) ==
  IF scheduler \notin Users \/ Role(scheduler) \notin {"ADMIN", "OFFICER"} THEN "Forbidden"
  ELSE IF assignedOfficer \notin Users \/ Role(assignedOfficer) # "OFFICER" THEN "BadRequest"
  ELSE IF a \notin 1..Len(as) THEN "NotFound"
  ELSE IF ExistingInterview(is, a) # {} THEN "BadRequest"
  ELSE "ok"

createInterview_check(p, scheduler, a, assignedOfficer, date) ==
  /\ Idle(p)
  /\ LET c == NewCall("createInterview", scheduler, a, assignedOfficer, date)
         r == CreateInterviewChecks(apps, interviews, scheduler, a, assignedOfficer)
     IN calls' = [calls EXCEPT ![p] =
                    IF r = "ok" THEN [c EXCEPT !.pc = "create"] ELSE Respond(c, r, 0)]
  /\ UNCHANGED <<apps, active, now, docs, reqs, payVars, interviews, authVars>>

createInterview_create(p) ==
  /\ calls[p].op = "createInterview" /\ calls[p].pc = "create"
  /\ Len(interviews) < MaxInterviews
  /\ interviews' = Append(interviews, NewInterview(calls[p].tgt, calls[p].a1,
                                                    calls[p].user, calls[p].a2))
  /\ calls' = [calls EXCEPT ![p] = Return(calls[p], Len(interviews) + 1)]
  /\ UNCHANGED <<apps, active, now, docs, reqs, payVars, authVars>>

\* the status of the interview is not looked at
RescheduleChecks(is, officer, k) ==
  IF officer \notin Users \/ Role(officer) \notin {"ADMIN", "OFFICER"} THEN "Forbidden"
  ELSE IF k \notin 1..Len(is) THEN "NotFound"
  ELSE IF is[k].assignedOfficerId # officer /\ is[k].schedulerId # officer THEN "Forbidden"
  ELSE "ok"

rescheduleInterview_check(p, officer, k, date) ==
  /\ Idle(p)
  /\ LET c == NewCall("rescheduleInterview", officer, k, date, NULL)
         r == RescheduleChecks(interviews, officer, k)
     IN calls' = [calls EXCEPT ![p] =
                    IF r = "ok" THEN [c EXCEPT !.pc = "update"] ELSE Respond(c, r, 0)]
  /\ UNCHANGED <<apps, active, now, docs, reqs, payVars, interviews, authVars>>

\* updateData: status, confirmed and confirmedAt always, scheduledDate when given
rescheduleInterview_update(p) ==
  /\ calls[p].op = "rescheduleInterview" /\ calls[p].pc = "update"
  /\ interviews' = [interviews EXCEPT ![calls[p].tgt] =
                      [@ EXCEPT !.status = "RESCHEDULED",
                                !.confirmed = FALSE,
                                !.confirmedAt = NoDate,
                                !.scheduledDate =
                                   IF calls[p].a1 = UNDEFINED THEN @ ELSE calls[p].a1]]
  /\ calls' = [calls EXCEPT ![p] = Return(calls[p], calls[p].tgt)]
  /\ UNCHANGED <<apps, active, now, docs, reqs, payVars, authVars>>

CancelInterviewChecks(is, officer, k) ==
  IF officer \notin Users \/ Role(officer) \notin {"ADMIN", "OFFICER"} THEN "Forbidden"
  ELSE IF k \notin 1..Len(is) THEN "NotFound"
  ELSE IF is[k].assignedOfficerId # officer /\ is[k].schedulerId # officer THEN "Forbidden"
  ELSE IF is[k].status = "CANCELLED" THEN "BadRequest"
  ELSE "ok"

cancelInterview_check(p, officer, k) ==
  /\ Idle(p)
  /\ LET c == NewCall("cancelInterview", officer, k, NULL, NULL)
         r == CancelInterviewChecks(interviews, officer, k)
     IN calls' = [calls EXCEPT ![p] =
                    IF r = "ok" THEN [c EXCEPT !.pc = "update"] ELSE Respond(c, r, 0)]
  /\ UNCHANGED <<apps, active, now, docs, reqs, payVars, interviews, authVars>>

cancelInterview_update(p) ==
  /\ calls[p].op = "cancelInterview" /\ calls[p].pc = "update"
  /\ interviews' = [interviews EXCEPT ![calls[p].tgt] =
                      [@ EXCEPT !.status = "CANCELLED",
                                !.confirmed = FALSE,
                                !.confirmedAt = NoDate]]
  /\ calls' = [calls EXCEPT ![p] = Return(calls[p], calls[p].tgt)]
  /\ UNCHANGED <<apps, active, now, docs, reqs, payVars, authVars>>

ConfirmInterviewChecks(as, is, applicant, k) ==
  IF applicant \notin Users THEN "NotFound"
  ELSE IF k \notin 1..Len(is) THEN "NotFound"
  ELSE IF as[is[k].applicationId].userId # applicant THEN "Forbidden"
  ELSE IF is[k].confirmed THEN "BadRequest"
  ELSE IF is[k].status = "CANCELLED" THEN "BadRequest"
  ELSE "ok"

confirmInterview_check(p, applicant, k) ==
  /\ Idle(p)
  /\ LET c == NewCall("confirmInterview", applicant, k, NULL, NULL)
         r == ConfirmInterviewChecks(apps, interviews, applicant, k)
     IN calls' = [calls EXCEPT ![p] =
                    IF r = "ok" THEN [c EXCEPT !.pc = "update"] ELSE Respond(c, r, 0)]
  /\ UNCHANGED <<apps, active, now, docs, reqs, payVars, interviews, authVars>>

\* data: {confirmed: true, confirmedAt: new Date()}
confirmInterview_update(p) ==
  /\ calls[p].op = "confirmInterview" /\ calls[p].pc = "update"
  /\ now <= MaxTime
  /\ interviews' = [interviews EXCEPT ![calls[p].tgt] =
                      [@ EXCEPT !.confirmed = TRUE, !.confirmedAt = now]]
  /\ now' = now + 1
  /\ calls' = [calls EXCEPT ![p] = Return(calls[p], calls[p].tgt)]
  /\ UNCHANGED <<apps, active, docs, reqs, payVars, authVars>>

CompleteInterviewChecks(is, officer, k) ==
  IF officer \notin Users \/ Role(officer) \notin {"ADMIN", "OFFICER"} THEN "Forbidden"
  ELSE IF k \notin 1..Len(is) THEN "NotFound"
  ELSE IF is[k].assignedOfficerId # officer THEN "Forbidden"
  ELSE IF is[k].status = "COMPLETED" THEN "BadRequest"
  ELSE IF is[k].status = "CANCELLED" THEN "BadRequest"
  ELSE "ok"

markInterviewCompleted_check(p, officer, k, outcome) ==
  /\ Idle(p)
  /\ LET c == NewCall("markInterviewCompleted", officer, k, outcome, NULL)
         r == CompleteInterviewChecks(interviews, officer, k)
     IN calls' = [calls EXCEPT ![p] =
                    IF r = "ok" THEN [c EXCEPT !.pc = "update"] ELSE Respond(c, r, 0)]
  /\ UNCHANGED <<apps, active, now, docs, reqs, payVars, interviews, authVars>>

markInterviewCompleted_update(p) ==
  /\ calls[p].op = "markInterviewCompleted" /\ calls[p].pc = "update"
  /\ interviews' = [interviews EXCEPT ![calls[p].tgt] =
                      [@ EXCEPT !.status = "COMPLETED", !.outcome = calls[p].a1]]
  /\ calls' = [calls EXCEPT ![p] = Return(calls[p], calls[p].tgt)]
  /\ UNCHANGED <<apps, active, now, docs, reqs, payVars, authVars>>

\* --------------------------------------------------------- authentication
Emails == {"e1", "e2"}
Passwords == {"pw1", "pw2"}
OtpCodes == {"111111", "222222"}

\* expiresAt: new Date(Date.now() + 10 * 60 * 1000), in seconds
OtpLifetime == 10 * 60

\* bcrypt.hash and bcrypt.compare: a hash is not the password, and compare
\* accepts exactly the password that was hashed
Hash(password) == <<"bcrypt", password>>
Compare(password, hash) == hash = Hash(password)

\* user.findUnique({where: {email}})
UserByEmail(us, email) == {k \in 1..Len(us) : us[k].email = email}

NewUser(email, password, role) ==
  [email |-> email, password |-> Hash(password), isActive |-> FALSE,
   role |-> IF role = UNDEFINED THEN "APPLICANT" ELSE role]

NewOtp(email, otp, t) ==
  [email |-> email, otp |-> otp, expiresAt |-> t + OtpLifetime, used |-> FALSE]

\* signup without the lookup of the email
SignupChecks_NoLookup(us, email, role) ==
  IF role = "OFFICER" THEN "BadRequest" ELSE "ok"

SignupChecks(us, email, role) ==
  IF UserByEmail(us, email) # {} THEN "Conflict"
  ELSE IF role = "OFFICER" THEN "BadRequest"
  ELSE "ok"

signup_check(p, email, password, role) ==
  /\ Idle(p)
  /\ LET c == NewCall("signup", email, 0, password, role)
         r == SignupChecks(accounts, email, role)
     IN /\ r = "ok" => Len(otps) < MaxOtps
        /\ calls' = [calls EXCEPT ![p] =
                       IF r = "ok" THEN [c EXCEPT !.pc = "create"] ELSE Respond(c, r, 0)]
  /\ UNCHANGED <<apps, active, now, docs, reqs, payVars, interviews, authVars>>

\* user.create: email is unique, so the create throws when a row has it
signup_create(p) ==
  /\ calls[p].op = "signup" /\ calls[p].pc = "create"
  /\ IF UserByEmail(accounts, calls[p].user) # {}
     THEN /\ calls' = [calls EXCEPT ![p] = Respond(calls[p], "InternalError", 0)]
          /\ UNCHANGED accounts
     ELSE /\ accounts' = Append(accounts, NewUser(calls[p].user, calls[p].a1, calls[p].a2))
          /\ calls' = [calls EXCEPT ![p] = [calls[p] EXCEPT !.pc = "otp"]]
  /\ UNCHANGED <<apps, active, now, docs, reqs, payVars, interviews, otps>>

\* sendOtp: a random six-digit code
signup_sendOtp(p, otp) ==
  /\ calls[p].op = "signup" /\ calls[p].pc = "otp"
  /\ otps' = Append(otps, NewOtp(calls[p].user, otp, now))
  /\ calls' = [calls EXCEPT ![p] = Return(calls[p], First(UserByEmail(accounts, calls[p].user)))]
  /\ UNCHANGED <<apps, active, now, docs, reqs, payVars, interviews, accounts>>

\* login without the check of isActive
LoginChecks_NoActiveCheck(us, email, password) ==
  IF UserByEmail(us, email) = {} THEN "BadRequest"
  ELSE IF ~Compare(password, us[First(UserByEmail(us, email))].password) THEN "Unauthorized"
  ELSE "ok"

\* the NotFound of a missing user is rethrown by the catch as BadRequest
LoginChecks(us, email, password) ==
  IF UserByEmail(us, email) = {} THEN "BadRequest"
  ELSE IF ~us[First(UserByEmail(us, email))].isActive THEN "BadRequest"
  ELSE IF ~Compare(password, us[First(UserByEmail(us, email))].password) THEN "Unauthorized"
  ELSE "ok"

\* login writes no table of the model: it returns the tokens of the user or throws
login(p, email, password) ==
  /\ Idle(p)
  /\ LET c == NewCall("login", email, 0, password, NULL)
         r == LoginChecks(accounts, email, password)
     IN calls' = [calls EXCEPT ![p] =
                    IF r = "ok" THEN Respond(c, r, First(UserByEmail(accounts, email)))
                    ELSE Respond(c, r, 0)]
  /\ UNCHANGED <<apps, active, now, docs, reqs, payVars, interviews, authVars>>

\* the lookup without the filter on used
OtpRecord_AnyRecord(os, email, otp) ==
  {k \in 1..Len(os) : os[k].email = email /\ os[k].otp = otp}

\* oTP.findFirst({where: {email, otp, used: false}})
OtpRecord(os, email, otp) ==
  {k \in 1..Len(os) : os[k].email = email /\ os[k].otp = otp /\ ~os[k].used}

\* without a record the failure is audited first: logAuditEvent connects the
\* log row to the user of the email and throws when there is none
VerifyOtpChecks(us, os, email, otp, t) ==
  IF OtpRecord(os, email, otp) = {}
  THEN IF UserByEmail(us, email) = {} THEN "InternalError" ELSE "BadRequest"
  ELSE IF os[First(OtpRecord(os, email, otp))].expiresAt < t THEN "BadRequest"
  ELSE "ok"

verifyOtp_check(p, email, otp) ==
  /\ Idle(p)
  /\ LET c == NewCall("verifyOtp", email, 0, otp, NULL)
         r == VerifyOtpChecks(accounts, otps, email, otp, now)
     IN calls' = [calls EXCEPT ![p] =
                    IF r = "ok"
                    THEN [c EXCEPT !.pc = "activate",
                                   !.tgt = First(OtpRecord(otps, email, otp))]
                    ELSE Respond(c, r, 0)]
  /\ UNCHANGED <<apps, active, now, docs, reqs, payVars, interviews, authVars>>

\* user.update({where: {email}, data: {isActive: true}})
verifyOtp_activate(p) ==
  /\ calls[p].op = "verifyOtp" /\ calls[p].pc = "activate"
  /\ accounts' = [k \in 1..Len(accounts) |->
                    IF accounts[k].email = calls[p].user
                    THEN [accounts[k] EXCEPT !.isActive = TRUE] ELSE accounts[k]]
  /\ calls' = [calls EXCEPT ![p] = [calls[p] EXCEPT !.pc = "use"]]
  /\ UNCHANGED <<apps, active, now, docs, reqs, payVars, interviews, otps>>

\* oTP.update({where: {id: otpRecord.id}, data: {used: true}})
verifyOtp_use(p) ==
  /\ calls[p].op = "verifyOtp" /\ calls[p].pc = "use"
  /\ otps' = [otps EXCEPT ![calls[p].tgt].used = TRUE]
  /\ calls' = [calls EXCEPT ![p] = Return(calls[p], calls[p].tgt)]
  /\ UNCHANGED <<apps, active, now, docs, reqs, payVars, interviews, accounts>>

\* for a missing user the NotFound is preceded by logAuditEvent, which throws
\* because it cannot connect the log row to a user
ResendOtpChecks(us, email) ==
  IF UserByEmail(us, email) = {} THEN "InternalError"
  ELSE IF us[First(UserByEmail(us, email))].isActive THEN "BadRequest"
  ELSE "ok"

resendOtp_check(p, email) ==
  /\ Idle(p)
  /\ LET c == NewCall("resendOtp", email, 0, NULL, NULL)
         r == ResendOtpChecks(accounts, email)
     IN /\ r = "ok" => Len(otps) < MaxOtps
        /\ calls' = [calls EXCEPT ![p] =
                       IF r = "ok" THEN [c EXCEPT !.pc = "otp"] ELSE Respond(c, r, 0)]
  /\ UNCHANGED <<apps, active, now, docs, reqs, payVars, interviews, authVars>>

resendOtp_sendOtp(p, otp) ==
  /\ calls[p].op = "resendOtp" /\ calls[p].pc = "otp"
  /\ otps' = Append(otps, NewOtp(calls[p].user, otp, now))
  /\ calls' = [calls EXCEPT ![p] = Return(calls[p], Len(otps) + 1)]
  /\ UNCHANGED <<apps, active, now, docs, reqs, payVars, interviews, accounts>>

\* time passes between requests: the lifetime of an OTP exactly, or one
\* second more
passTime(d) ==
  /\ \A p \in Slots : Idle(p)
  /\ now <= MaxTime
  /\ now' = now + d
  /\ UNCHANGED <<apps, active, calls, docs, reqs, payVars, interviews, authVars>>

\* ---------------------------------------------------------- specification
Init ==
  /\ apps = <<>>
  /\ active = [o \in Officers |-> TRUE]
  /\ now = 1
  /\ calls = [p \in Slots |-> NoCall]
  /\ docs = <<>>
  /\ reqs = <<>>
  /\ payments = <<>>
  /\ intents = <<>>
  /\ interviews = <<>>
  /\ accounts = <<>>
  /\ otps = <<>>

CreateInputs == {<<"u1", "v1">>, <<"u1", "v2">>}
InfoInputs == {<<"u1", TRUE>>, <<"u1", FALSE>>, <<"u2", TRUE>>}
SubmitCallers == {"u1", "u2"}
StatusInputs ==
  ({"o1"} \X Status \X {UNDEFINED, "r1"})
    \cup {<<"ad", "REJECTED", "r1">>, <<"u1", "APPROVED", UNDEFINED>>}

Next ==
  \/ \E p \in SeqSlots, i \in CreateInputs : createApplication_check(p, i[1], i[2])
  \/ \E p \in SeqSlots : createApplication_insert(p)
  \/ \E p \in SeqSlots, i \in InfoInputs, a \in 1..MaxApps :
       createOrUpdatePersonalInfo_check(p, i[1], a, i[2])
  \/ \E p \in SeqSlots : createOrUpdatePersonalInfo_upsert(p)
  \/ \E p \in SeqSlots, i \in InfoInputs, a \in 1..MaxApps :
       createOrUpdateTravelInfo_check(p, i[1], a, i[2])
  \/ \E p \in SeqSlots : createOrUpdateTravelInfo_upsert(p)
  \/ \E p \in SeqSlots, u \in SubmitCallers, a \in 1..MaxApps : submitApplication_check(p, u, a)
  \/ \E p \in SeqSlots : assignOfficerToApplication(p)
  \/ \E p \in SeqSlots, delivered \in BOOLEAN : submitApplication_update(p, delivered)
  \/ \E p \in SeqSlots, i \in StatusInputs, a \in 1..MaxApps :
       updateApplicationStatus_check(p, i[1], a, i[2], i[3])
  \/ \E p \in SeqSlots, delivered \in BOOLEAN : updateApplicationStatus_update(p, delivered)

Spec == Init /\ [][Next]_vars

\* The lifecycle with officers being activated and deactivated, for the
\* assignment algorithm.
AssignCreateInputs == {<<"u1", "v1">>, <<"u2", "v1">>}
AssignStatusInputs == {"o1"} \X {"UNDER_REVIEW", "APPROVED"} \X {UNDEFINED}

NextAssign ==
  \/ \E p \in SeqSlots, i \in AssignCreateInputs : createApplication_check(p, i[1], i[2])
  \/ \E p \in SeqSlots : createApplication_insert(p)
  \/ \E p \in SeqSlots, u \in Applicants, a \in 1..MaxApps :
       createOrUpdatePersonalInfo_check(p, u, a, TRUE)
  \/ \E p \in SeqSlots : createOrUpdatePersonalInfo_upsert(p)
  \/ \E p \in SeqSlots, u \in Applicants, a \in 1..MaxApps :
       createOrUpdateTravelInfo_check(p, u, a, TRUE)
  \/ \E p \in SeqSlots : createOrUpdateTravelInfo_upsert(p)
  \/ \E p \in SeqSlots, u \in Applicants, a \in 1..MaxApps : submitApplication_check(p, u, a)
  \/ \E p \in SeqSlots : assignOfficerToApplication(p)
  \/ \E p \in SeqSlots, delivered \in BOOLEAN : submitApplication_update(p, delivered)
  \/ \E p \in SeqSlots, i \in AssignStatusInputs, a \in 1..MaxApps :
       updateApplicationStatus_check(p, i[1], a, i[2], i[3])
  \/ \E p \in SeqSlots, delivered \in BOOLEAN : updateApplicationStatus_update(p, delivered)
  \/ \E p \in SeqSlots, o \in Officers, b \in BOOLEAN : updateUser(p, o, b)

SpecAssign == Init /\ [][NextAssign]_vars

\* Documents of two applicants' applications: uploads, verification, and
\* documents submitted for a request, one request at a time.
DocCreateInputs == {<<"u1", "v1">>, <<"u2", "v1">>}
UploadInputs ==
  {<<"u1", "passportCopy", "f1">>, <<"u1", "passportCopy", "f2">>,
   <<"u1", "selfie", "f1">>, <<"u2", "passportCopy", "f1">>}
VerifyInputs == {<<"o1", TRUE, UNDEFINED>>, <<"o1", FALSE, "r1">>, <<"u1", TRUE, UNDEFINED>>}

NextDoc ==
  \/ \E p \in SeqSlots, i \in DocCreateInputs : createApplication_check(p, i[1], i[2])
  \/ \E p \in SeqSlots : createApplication_insert(p)
  \/ \E p \in SeqSlots, i \in UploadInputs, a \in 1..MaxApps :
       uploadDocument_check(p, i[1], a, i[2], i[3])
  \/ \E p \in SeqSlots : uploadDocument_update(p)
  \/ \E p \in SeqSlots : uploadDocument_create(p)
  \/ \E p \in SeqSlots, i \in VerifyInputs, d \in 1..MaxDocs :
       verifyDocument_check(p, i[1], d, i[2], i[3])
  \/ \E p \in SeqSlots : verifyDocument_update(p)
  \/ \E p \in SeqSlots : createRequestForDocument_check(p, "o1", 1, "n1")
  \/ \E p \in SeqSlots : createRequestForDocument_create(p)
  \/ \E p \in SeqSlots, r \in 1..MaxReqs :
       submitDocumentForRequest_check(p, "u1", r, "passportCopy", "f1")
  \/ \E p \in SeqSlots : submitDocumentForRequest_create(p)
  \/ \E p \in SeqSlots : submitDocumentForRequest_update(p)

SpecDoc == Init /\ [][NextDoc]_vars

\* The document-request workflow with two requests in flight: the steps of an
\* officer's and an applicant's request interleave at every await.
NextRequest ==
  \/ \E p \in Slots : createApplication_check(p, "u1", "v1")
  \/ \E p \in Slots : createApplication_insert(p)
  \/ \E p \in Slots : createRequestForDocument_check(p, "o1", 1, "n1")
  \/ \E p \in Slots : createRequestForDocument_create(p)
  \/ \E p \in Slots, r \in 1..MaxReqs : updateRequestForDocument_check(p, "o1", r, "n2")
  \/ \E p \in Slots : updateRequestForDocument_update(p)
  \/ \E p \in Slots, o \in Officers, r \in 1..MaxReqs : cancelRequestForDocument_check(p, o, r)
  \/ \E p \in Slots : cancelRequestForDocument_update(p)
  \/ \E p \in Slots, u \in Applicants, r \in 1..MaxReqs :
       submitDocumentForRequest_check(p, u, r, "passportCopy", "f1")
  \/ \E p \in Slots : submitDocumentForRequest_create(p)
  \/ \E p \in Slots : submitDocumentForRequest_update(p)
  \/ \E p \in Slots : submitDocumentForRequest_updateFails(p)

SpecRequest == Init /\ [][NextRequest]_vars

\* The application lifecycle with two requests in flight: the steps of two
\* createApplication or submitApplication calls interleave at every await.
NextRace ==
  \/ \E p \in Slots : createApplication_check(p, "u1", "v1")
  \/ \E p \in Slots : createApplication_insert(p)
  \/ \E p \in Slots, a \in 1..MaxApps : createOrUpdatePersonalInfo_check(p, "u1", a, TRUE)
  \/ \E p \in Slots : createOrUpdatePersonalInfo_upsert(p)
  \/ \E p \in Slots, a \in 1..MaxApps : createOrUpdateTravelInfo_check(p, "u1", a, TRUE)
  \/ \E p \in Slots : createOrUpdateTravelInfo_upsert(p)
  \/ \E p \in Slots, a \in 1..MaxApps : submitApplication_check(p, "u1", a)
  \/ \E p \in Slots : assignOfficerToApplication(p)
  \/ \E p \in Slots, delivered \in BOOLEAN : submitApplication_update(p, delivered)

SpecRace == Init /\ [][NextRace]_vars

\* Payments of one applicant's application, with an officer deciding it: one
\* request at a time; the customer's attempts and the processor's events come
\* in any order.
PayStatusInputs == {"o1"} \X {"APPROVED", "REJECTED"} \X {"r1"}

NextPay ==
  \/ \E p \in SeqSlots : createApplication_check(p, "u1", "v1")
  \/ \E p \in SeqSlots : createApplication_insert(p)
  \/ \E p \in SeqSlots, i \in PayStatusInputs, a \in 1..MaxApps :
       updateApplicationStatus_check(p, i[1], a, i[2], i[3])
  \/ \E p \in SeqSlots, delivered \in BOOLEAN : updateApplicationStatus_update(p, delivered)
  \/ \E p \in SeqSlots, u \in Applicants, a \in 1..MaxApps : createPaymentIntent_check(p, u, a)
  \/ \E p \in SeqSlots : createPaymentIntent_intent(p)
  \/ \E p \in SeqSlots : createPaymentIntent_create(p)
  \/ \E i \in 1..MaxPayments, accepted \in BOOLEAN : confirmPayment(i, accepted)
  \/ \E p \in SeqSlots, i \in 1..MaxPayments : handleSuccessfulPayment_payment(p, i)
  \/ \E p \in SeqSlots : handleSuccessfulPayment_application(p)
  \/ \E p \in SeqSlots, i \in 1..MaxPayments : handleFailedPayment(p, i)
  \/ \E p \in SeqSlots, k \in 1..MaxPayments, i \in 1..MaxPayments :
       updatePaymentStatus_check(p, k, i)
  \/ \E p \in SeqSlots : updatePaymentStatus_retrieve(p)
  \/ \E p \in SeqSlots : updatePaymentStatus_update(p)
  \/ \E p \in SeqSlots : updatePaymentStatus_application(p)

SpecPay == Init /\ [][NextPay]_vars

\* Interviews of the applications of u1: scheduled by officer o1 or the admin
\* with o1 assigned, then rescheduled, cancelled and completed by either
\* officer or the admin and confirmed by either applicant; one request at a
\* time.
CreateInterviewInputs == {"o1", "ad"} \X {"o1"} \X {"d1"}
RescheduleInputs == (Officers \cup Admins) \X {"d2", UNDEFINED}

NextInterview ==
  \/ \E p \in SeqSlots : createApplication_check(p, "u1", "v1")
  \/ \E p \in SeqSlots : createApplication_insert(p)
  \/ \E p \in SeqSlots, i \in CreateInterviewInputs, a \in 1..MaxApps :
       createInterview_check(p, i[1], a, i[2], i[3])
  \/ \E p \in SeqSlots : createInterview_create(p)
  \/ \E p \in SeqSlots, i \in RescheduleInputs, k \in 1..MaxInterviews :
       rescheduleInterview_check(p, i[1], k, i[2])
  \/ \E p \in SeqSlots : rescheduleInterview_update(p)
  \/ \E p \in SeqSlots, o \in Officers \cup Admins, k \in 1..MaxInterviews :
       cancelInterview_check(p, o, k)
  \/ \E p \in SeqSlots : cancelInterview_update(p)
  \/ \E p \in SeqSlots, u \in Applicants, k \in 1..MaxInterviews :
       confirmInterview_check(p, u, k)
  \/ \E p \in SeqSlots : confirmInterview_update(p)
  \/ \E p \in SeqSlots, o \in Officers \cup Admins, k \in 1..MaxInterviews :
       markInterviewCompleted_check(p, o, k, "passed")
  \/ \E p \in SeqSlots : markInterviewCompleted_update(p)

SpecInterview == Init /\ [][NextInterview]_vars

\* Sign-up, activation and login of two emails, one request at a time.
SignupInputs == Emails \X Passwords \X {UNDEFINED, "OFFICER"}

NextAuth ==
  \/ \E p \in SeqSlots, i \in SignupInputs : signup_check(p, i[1], i[2], i[3])
  \/ \E p \in SeqSlots : signup_create(p)
  \/ \E p \in SeqSlots, otp \in OtpCodes : signup_sendOtp(p, otp)
  \/ \E p \in SeqSlots, e \in Emails, pw \in Passwords : login(p, e, pw)
  \/ \E p \in SeqSlots, e \in Emails, otp \in OtpCodes : verifyOtp_check(p, e, otp)
  \/ \E p \in SeqSlots : verifyOtp_activate(p)
  \/ \E p \in SeqSlots : verifyOtp_use(p)
  \/ \E p \in SeqSlots, e \in Emails : resendOtp_check(p, e)
  \/ \E p \in SeqSlots, otp \in OtpCodes : resendOtp_sendOtp(p, otp)
  \/ \E d \in {OtpLifetime, OtpLifetime + 1} : passTime(d)

SpecAuth == Init /\ [][NextAuth]_vars

\* Submissions only: both officers stay active, applicants create, complete
\* and submit applications one request at a time, and no status is updated.
NextSubmit ==
  \/ \E p \in SeqSlots, u \in Applicants : createApplication_check(p, u, "v1")
  \/ \E p \in SeqSlots : createApplication_insert(p)
  \/ \E p \in SeqSlots, u \in Applicants, a \in 1..MaxApps :
       createOrUpdatePersonalInfo_check(p, u, a, TRUE)
  \/ \E p \in SeqSlots : createOrUpdatePersonalInfo_upsert(p)
  \/ \E p \in SeqSlots, u \in Applicants, a \in 1..MaxApps :
       createOrUpdateTravelInfo_check(p, u, a, TRUE)
  \/ \E p \in SeqSlots : createOrUpdateTravelInfo_upsert(p)
  \/ \E p \in SeqSlots, u \in Applicants, a \in 1..MaxApps : submitApplication_check(p, u, a)
  \/ \E p \in SeqSlots : assignOfficerToApplication(p)
  \/ \E p \in SeqSlots, delivered \in BOOLEAN : submitApplication_update(p, delivered)

SpecSubmit == Init /\ [][NextSubmit]_vars

\* ================================================================ claims
\* the first step of method op runs in slot p
Called(p, op) == Idle(p) /\ calls'[p] # calls[p] /\ calls'[p].op = op

\* method op returns from slot p after its last write
Returned(p, op) ==
  calls[p].op = op /\ calls[p].pc # "idle" /\ calls'[p].pc = "idle" /\ calls'[p].res = "ok"

\* C1: submitApplication by the owner of a PENDING application fails with
\* BadRequest and writes nothing when PersonalInfo or TravelInfo is absent;
\* when both exist the checks pass and the call returns with the
\* application SUBMITTED.
C1_SubmitGate ==
  [][\A p \in Slots :
       /\ (/\ Called(p, "submitApplication")
           /\ calls'[p].tgt \in 1..Len(apps)
           /\ apps[calls'[p].tgt].userId = calls'[p].user
           /\ apps[calls'[p].tgt].status = "PENDING")
          => IF apps[calls'[p].tgt].personalInfo /\ apps[calls'[p].tgt].travelInfo
             THEN calls'[p].pc = "assign" /\ apps' = apps
             ELSE /\ calls'[p].pc = "idle"
                  /\ calls'[p].res = "BadRequest"
                  /\ apps' = apps
       /\ Returned(p, "submitApplication")
          => apps'[calls[p].tgt].status = "SUBMITTED"
     ]_vars

\* a submitApplication by the owner has just been refused although the
\* application is PENDING and has its PersonalInfo: TravelInfo is missing
C1_Witness ==
  \E p \in Slots :
    /\ Idle(p) /\ calls[p].op = "submitApplication" /\ calls[p].res = "BadRequest"
    /\ calls[p].tgt \in 1..Len(apps)
    /\ apps[calls[p].tgt].userId = calls[p].user
    /\ apps[calls[p].tgt].status = "PENDING"
    /\ apps[calls[p].tgt].personalInfo /\ ~apps[calls[p].tgt].travelInfo

\* C2: an application's submissionDate is null when the row is created, is
\* set only by a submitApplication that returns, and once set it never
\* changes and is never cleared, whatever operations follow.
C2_SubmissionDateImmutable ==
  [][/\ \A a \in 1..Len(apps) :
          IF apps[a].submissionDate # NoDate
          THEN apps'[a].submissionDate = apps[a].submissionDate
          ELSE apps'[a].submissionDate # NoDate
               => \E p \in Slots : Returned(p, "submitApplication") /\ calls[p].tgt = a
     /\ \A b \in (Len(apps) + 1)..Len(apps') : apps'[b].submissionDate = NoDate
     ]_vars

C4_CreateIdempotent ==
  [][\A p \in Slots :
       (/\ Called(p, "createApplication")
        /\ calls[p].op = "createApplication" /\ calls[p].res = "ok"
        /\ calls'[p].user = apps[calls[p].ret].userId
        /\ calls'[p].a1 = apps[calls[p].ret].visaTypeId)
       => /\ calls'[p].pc = "idle"
          /\ calls'[p].res = "ok"
          /\ calls'[p].ret = calls[p].ret
          /\ apps' = apps
     ]_vars

\* a createApplication has just returned an existing draft instead of
\* inserting a row
C4_Witness ==
  \E p \in Slots :
    /\ Idle(p) /\ calls[p].op = "createApplication" /\ calls[p].res = "ok"
    /\ calls[p].a1 # NULL
    /\ calls[p].ret \in ExistingApplication(apps, calls[p].user, calls[p].a1)

\* C5: updateApplicationStatus by an officer or admin with the application's
\* current status as target fails with BadRequest and writes nothing.
C5_SameStatusRejected ==
  [][\A p \in Slots :
       (/\ Called(p, "updateApplicationStatus")
        /\ Role(calls'[p].user) \in {"ADMIN", "OFFICER"}
        /\ calls'[p].tgt \in 1..Len(apps)
        /\ apps[calls'[p].tgt].status = calls'[p].a1)
       => /\ calls'[p].pc = "idle"
          /\ calls'[p].res = "BadRequest"
          /\ apps' = apps
     ]_vars

\* an officer's update of an APPROVED application to APPROVED has just been
\* refused; the application still carries its expiry date
C5_Witness ==
  \E p \in Slots :
    /\ Idle(p) /\ calls[p].op = "updateApplicationStatus" /\ calls[p].res = "BadRequest"
    /\ calls[p].a1 = "APPROVED"
    /\ apps[calls[p].tgt].status = "APPROVED"
    /\ apps[calls[p].tgt].expiryDate = apps[calls[p].tgt].decisionDate + NinetyDays

\* C6: after every updateApplicationStatus that returns with target
\* REJECTED the application has a non-null rejectionReason and a null
\* expiryDate.
C6_RejectedHasReason ==
  [][\A p \in Slots :
       (Returned(p, "updateApplicationStatus") /\ calls[p].a1 = "REJECTED")
       => /\ apps'[calls[p].tgt].rejectionReason # NULL
          /\ apps'[calls[p].tgt].expiryDate = NoDate
     ]_vars

\* C7: after every updateApplicationStatus that returns, a target of
\* APPROVED leaves expiryDate at the time of the write plus ninety days and
\* a null rejectionReason; a target other than APPROVED and REJECTED leaves
\* both null.
C7_ApprovedExpiry ==
  [][\A p \in Slots :
       Returned(p, "updateApplicationStatus")
       => LET after == apps'[calls[p].tgt]
          IN /\ calls[p].a1 = "APPROVED"
                => /\ after.expiryDate = now + NinetyDays
                   /\ after.rejectionReason = NULL
             /\ calls[p].a1 \notin {"APPROVED", "REJECTED"}
                => /\ after.expiryDate = NoDate
                   /\ after.rejectionReason = NULL
     ]_vars

\* an update to APPROVED has just returned for an application decided
\* before (the clock had been read already): the expiry is ninety days after
\* this decision and no rejection reason is left
C7_Witness ==
  \E p \in Slots :
    /\ Idle(p) /\ calls[p].op = "updateApplicationStatus" /\ calls[p].res = "ok"
    /\ apps[calls[p].ret].status = "APPROVED"
    /\ apps[calls[p].ret].decisionDate > 1
    /\ apps[calls[p].ret].expiryDate = apps[calls[p].ret].decisionDate + NinetyDays
    /\ apps[calls[p].ret].rejectionReason = NULL

\* the documents of the given type an application has
DocumentsOfType(a, type) ==
  {d \in 1..Len(docs) : docs[d].applicationId = a /\ docs[d].documentType = type}

\* C8: an uploadDocument that passes its checks for an (application,
\* documentType) pair that already has a document goes on to update one of
\* the pair's rows, and its write replaces the file fields, resets
\* verificationStatus to PENDING, clears verifiedBy, verifiedAt and
\* rejectionReason, touches no other row and adds none.
C8_ReuploadInPlace ==
  [][\A p \in Slots :
       /\ (/\ Called(p, "uploadDocument")
           /\ calls'[p].pc # "idle"
           /\ DocumentsOfType(calls'[p].tgt, calls'[p].a1) # {})
          => /\ calls'[p].pc = "update"
             /\ calls'[p].doc \in DocumentsOfType(calls'[p].tgt, calls'[p].a1)
       /\ (/\ Returned(p, "uploadDocument")
           /\ DocumentsOfType(calls[p].tgt, calls[p].a1) # {})
          => /\ Len(docs') = Len(docs)
             /\ \E d \in DocumentsOfType(calls[p].tgt, calls[p].a1) :
                  /\ docs'[d] = [docs[d] EXCEPT !.file = calls[p].a2,
                                               !.verificationStatus = "PENDING",
                                               !.verifiedBy = NULL,
                                               !.verifiedAt = NoDate,
                                               !.rejectionReason = NULL,
                                               !.uploadDate = now]
                  /\ \A e \in 1..Len(docs) : e # d => docs'[e] = docs[e]
     ]_vars

\* an uploadDocument has just returned for the only document there is, which
\* had been uploaded before: its upload date is a later clock reading and it
\* is PENDING with no verifier
C8_Witness ==
  \E p \in Slots :
    /\ Idle(p) /\ calls[p].op = "uploadDocument" /\ calls[p].res = "ok"
    /\ Len(docs) = 1 /\ calls[p].ret = 1
    /\ docs[1].uploadDate > 1
    /\ docs[1].verificationStatus = "PENDING" /\ docs[1].verifiedBy = NULL

\* the caller may act on request r: the applicant who owns its application
\* (submitDocumentForRequest) or the officer who made it (cancel, update)
MayActOn(op, u, r) ==
  IF op = "submitDocumentForRequest"
  THEN apps[reqs[r].applicationId].userId = u
  ELSE reqs[r].officerId = u

\* C9: a request that is SUBMITTED or CANCELLED keeps its status in every
\* step, and a submitDocumentForRequest, cancelRequestForDocument or
\* updateRequestForDocument called on it by the user entitled to it fails
\* with BadRequest and writes nothing.
C9_TerminalRequestFinal ==
  [][/\ \A r \in 1..Len(reqs) :
          reqs[r].status \in {"SUBMITTED", "CANCELLED"} => reqs'[r].status = reqs[r].status
     /\ \A p \in Slots :
         (/\ \/ Called(p, "submitDocumentForRequest")
             \/ Called(p, "cancelRequestForDocument")
             \/ Called(p, "updateRequestForDocument")
          /\ calls'[p].tgt \in 1..Len(reqs)
          /\ reqs[calls'[p].tgt].status \in {"SUBMITTED", "CANCELLED"}
          /\ MayActOn(calls'[p].op, calls'[p].user, calls'[p].tgt))
         => /\ calls'[p].pc = "idle"
            /\ calls'[p].res = "BadRequest"
            /\ docs' = docs /\ reqs' = reqs
    ]_vars

\* C10: whenever a submitDocumentForRequest has ended (returned or thrown)
\* after creating its Document, the request is SUBMITTED and its documentId
\* is that Document; and every SUBMITTED request has a Document linked.
C10_SubmitAtomic ==
  /\ \A p \in Slots :
       (Idle(p) /\ calls[p].op = "submitDocumentForRequest" /\ calls[p].doc # 0)
       => /\ calls[p].doc \in 1..Len(docs)
          /\ reqs[calls[p].tgt].status = "SUBMITTED"
          /\ reqs[calls[p].tgt].documentId = calls[p].doc
  /\ \A r \in 1..Len(reqs) :
       reqs[r].status = "SUBMITTED" => reqs[r].documentId \in 1..Len(docs)

\* C11: of the submitApplication calls in flight for one application at most
\* one is past the status check, and a submitApplication that writes finds
\* the application still PENDING: the transition and the officer assignment
\* happen once.
C11_SubmitOnce ==
  [][/\ \A p, q \in Slots :
          (/\ p # q
           /\ calls[p].op = "submitApplication" /\ calls[p].pc # "idle"
           /\ calls[q].op = "submitApplication" /\ calls[q].pc # "idle")
          => calls[p].tgt # calls[q].tgt
     /\ \A p \in Slots :
          Returned(p, "submitApplication") => apps[calls[p].tgt].status = "PENDING"
    ]_vars

\* C14: in every state there is at most one application with status PENDING
\* and null submissionDate per user and visa type.
C14_OneDraftPerPair ==
  \A u \in Users, v \in VisaTypes :
    Cardinality({i \in 1..Len(apps) : /\ apps[i].userId = u
                                      /\ apps[i].visaTypeId = v
                                      /\ apps[i].status = "PENDING"
                                      /\ apps[i].submissionDate = NoDate}) <= 1

\* C12: a submitApplication that returns while no officer is active has
\* written status SUBMITTED, the submission date and a null officerId.
C12_SubmitWithoutOfficer ==
  [][\A p \in Slots :
       (Returned(p, "submitApplication") /\ \A o \in Officers : ~active[o])
       => /\ apps'[calls[p].tgt].status = "SUBMITTED"
          /\ apps'[calls[p].tgt].submissionDate = now
          /\ apps'[calls[p].tgt].submissionDate # NoDate
          /\ apps'[calls[p].tgt].officerId = NULL
     ]_vars

\* a submitApplication has just returned with no officer active: the
\* application is SUBMITTED, dated and has no officer
C12_Witness ==
  \E p \in Slots :
    /\ Idle(p) /\ calls[p].op = "submitApplication" /\ calls[p].res = "ok"
    /\ \A o \in Officers : ~active[o]
    /\ apps[calls[p].ret].status = "SUBMITTED"
    /\ apps[calls[p].ret].submissionDate # NoDate
    /\ apps[calls[p].ret].officerId = NULL

\* C13: in every state an application has at most one Document per
\* documentType.
C13_OneDocumentPerType ==
  \A d, e \in 1..Len(docs) :
    (docs[d].applicationId = docs[e].applicationId
     /\ docs[d].documentType = docs[e].documentType) => d = e

\* C15: each application has at most one COMPLETED payment among the payments
\* made for it (the payments whose intent was created for that application),
\* two intents created for one application before either completes included.
PaidApplication(k) ==
  IF payments[k].stripePaymentId \in 1..Len(intents)
  THEN intents[payments[k].stripePaymentId].applicationId
  ELSE 0

C15_OneCompletedPayment ==
  \A a \in 1..Len(apps) :
    Cardinality({k \in 1..Len(payments) :
                   /\ PaidApplication(k) = a
                   /\ payments[k].paymentStatus = "COMPLETED"}) <= 1

\* C16: each application has at most one interview whose status is SCHEDULED or
\* RESCHEDULED, after any sequence of createInterview, rescheduleInterview,
\* cancelInterview and markInterviewCompleted.
C16_OneActiveInterview ==
  \A a \in 1..Len(apps) :
    Cardinality({k \in 1..Len(interviews) :
                   /\ interviews[k].applicationId = a
                   /\ interviews[k].status \in {"SCHEDULED", "RESCHEDULED"}}) <= 1

C18_LoginOnlyWhenActive ==
  [][\A p \in Slots :
       /\ (calls[p].op = "signup" /\ Len(accounts') = Len(accounts) + 1)
          => /\ accounts'[Len(accounts')].email = calls[p].user
             /\ ~accounts'[Len(accounts')].isActive
             /\ \A k \in 1..Len(accounts) : accounts'[k] = accounts[k]
       /\ (Called(p, "login") /\ calls'[p].res = "ok")
          => \E k \in 1..Len(accounts) :
               /\ accounts[k].email = calls'[p].user
               /\ accounts[k].isActive
               /\ Compare(calls'[p].a1, accounts[k].password)
               /\ calls'[p].ret = k
    ]_vars

\* a login has returned the tokens of an account that was created by signup
\* and activated with its OTP
C18_Witness ==
  \E p \in Slots :
    /\ calls[p].op = "login" /\ calls[p].res = "ok"
    /\ accounts[calls[p].ret].isActive
    /\ \E k \in 1..Len(otps) : otps[k].email = calls[p].user /\ otps[k].used

\* C19: once the status of an application is APPROVED or REJECTED, no
\* operation (updateApplicationStatus, submitApplication, the
\* payment-succeeded webhook, updatePaymentStatus) changes it.
C19_DecisionFinal ==
  [][\A a \in 1..Len(apps) :
       apps[a].status \in {"APPROVED", "REJECTED"}
       => apps'[a].status = apps[a].status
    ]_vars

\* C20: updateRequestForDocument and cancelRequestForDocument write a request
\* only when the caller is the officer recorded as its officerId and its
\* status is SENT; a call by any other officer or admin fails with Forbidden
\* and leaves the request unchanged.
C20_OnlyRequesterWhileSent ==
  [][\A p \in Slots :
       /\ (/\ calls[p].op \in {"updateRequestForDocument", "cancelRequestForDocument"}
           /\ calls[p].pc = "update"
           /\ calls'[p].pc = "idle")
          => /\ reqs[calls[p].tgt].officerId = calls[p].user
             /\ reqs[calls[p].tgt].status = "SENT"
       /\ (/\ \/ Called(p, "updateRequestForDocument")
              \/ Called(p, "cancelRequestForDocument")
           /\ calls'[p].tgt \in 1..Len(reqs)
           /\ Role(calls'[p].user) \in {"ADMIN", "OFFICER"}
           /\ reqs[calls'[p].tgt].officerId # calls'[p].user)
          => /\ calls'[p].pc = "idle"
             /\ calls'[p].res = "Forbidden"
             /\ reqs' = reqs
    ]_vars

\* C21: an interview whose status is CANCELLED or COMPLETED never changes
\* status again, and COMPLETED is entered only from SCHEDULED or RESCHEDULED.
C21_InterviewTerminal ==
  [][\A k \in 1..Len(interviews) :
       /\ interviews[k].status \in {"CANCELLED", "COMPLETED"}
          => interviews'[k].status = interviews[k].status
       /\ (interviews'[k].status = "COMPLETED" /\ interviews[k].status # "COMPLETED")
          => interviews[k].status \in {"SCHEDULED", "RESCHEDULED"}
    ]_vars

\* C22: confirmInterview passes its checks only for the applicant who owns the
\* interview's application, on an interview that is SCHEDULED or RESCHEDULED
\* and not yet confirmed; the owner's confirmInterview on a confirmed
\* interview fails with BadRequest; every rescheduleInterview that writes
\* resets confirmed to false.
C22_ConfirmOnce ==
  [][\A p \in Slots :
       /\ (Called(p, "confirmInterview") /\ calls'[p].pc = "update")
          => /\ apps[interviews[calls'[p].tgt].applicationId].userId = calls'[p].user
             /\ interviews[calls'[p].tgt].status \in {"SCHEDULED", "RESCHEDULED"}
             /\ ~interviews[calls'[p].tgt].confirmed
       /\ (/\ Called(p, "confirmInterview")
           /\ calls'[p].tgt \in 1..Len(interviews)
           /\ apps[interviews[calls'[p].tgt].applicationId].userId = calls'[p].user
           /\ interviews[calls'[p].tgt].confirmed)
          => /\ calls'[p].pc = "idle"
             /\ calls'[p].res = "BadRequest"
             /\ interviews' = interviews
       /\ Returned(p, "rescheduleInterview")
          => ~interviews'[calls[p].tgt].confirmed
    ]_vars

\* C23: rescheduleInterview, cancelInterview and markInterviewCompleted are not
\* refused with Forbidden when the caller is the interview's assigned officer
\* or its scheduler, and fail with Forbidden, leaving the interview unchanged,
\* for every other officer or admin.
C23_AssignedOrScheduler ==
  [][\A p \in Slots :
       (/\ \/ Called(p, "rescheduleInterview")
           \/ Called(p, "cancelInterview")
           \/ Called(p, "markInterviewCompleted")
        /\ calls'[p].tgt \in 1..Len(interviews)
        /\ Role(calls'[p].user) \in {"ADMIN", "OFFICER"})
       => IF calls'[p].user \in {interviews[calls'[p].tgt].assignedOfficerId,
                                 interviews[calls'[p].tgt].schedulerId}
          THEN calls'[p].res # "Forbidden"
          ELSE /\ calls'[p].pc = "idle"
               /\ calls'[p].res = "Forbidden"
               /\ interviews' = interviews
    ]_vars

\* C24: whether the notification email of submitApplication or
\* updateApplicationStatus is delivered or fails, the step that writes the
\* status persists it and the call returns success with the application.
C24_EmailFailureIgnored ==
  [][\A p \in Slots :
       (/\ calls[p].op \in {"submitApplication", "updateApplicationStatus"}
        /\ calls[p].pc = "update"
        /\ calls'[p] # calls[p])
       => /\ calls'[p].pc = "idle"
          /\ calls'[p].res = "ok"
          /\ calls'[p].ret = calls[p].tgt
          /\ apps'[calls[p].tgt].status =
               IF calls[p].op = "submitApplication" THEN "SUBMITTED" ELSE calls[p].a1
    ]_vars

\* a submitApplication whose email failed has returned success and the
\* application is SUBMITTED
C24_Witness ==
  \E p \in Slots :
    /\ calls[p].op = "submitApplication"
    /\ calls[p].mail = "failed"
    /\ calls[p].res = "ok"
    /\ apps[calls[p].ret].status = "SUBMITTED"

\* C25: a document leaves PENDING only in the write of a verifyDocument called
\* by an ADMIN or OFFICER, which records the caller as verifiedBy; in every
\* state a PENDING document has null verifiedBy, verifiedAt and
\* rejectionReason, and a VERIFIED document has a verifiedBy and a null
\* rejectionReason.
C25_VerificationConsistent ==
  [][/\ \A d \in 1..Len(docs) :
          (docs[d].verificationStatus = "PENDING" /\ docs'[d].verificationStatus # "PENDING")
          => \E p \in Slots :
               /\ calls[p].op = "verifyDocument" /\ calls[p].pc = "update"
               /\ calls[p].tgt = d
               /\ Role(calls[p].user) \in {"ADMIN", "OFFICER"}
               /\ docs'[d].verifiedBy = calls[p].user
     /\ \A d \in 1..Len(docs') :
          /\ docs'[d].verificationStatus = "PENDING"
             => /\ docs'[d].verifiedBy = NULL
                /\ docs'[d].verifiedAt = NoDate
                /\ docs'[d].rejectionReason = NULL
          /\ docs'[d].verificationStatus = "VERIFIED"
             => /\ docs'[d].verifiedBy # NULL
                /\ Role(docs'[d].verifiedBy) \in {"ADMIN", "OFFICER"}
                /\ docs'[d].verifiedAt # NoDate
                /\ docs'[d].rejectionReason = NULL
    ]_vars

\* an officer has just verified a document
C25_Witness ==
  \E p \in Slots :
    /\ calls[p].op = "verifyDocument" /\ calls[p].res = "ok"
    /\ docs[calls[p].ret].verificationStatus = "VERIFIED"
    /\ docs[calls[p].ret].verifiedBy = calls[p].user
    /\ docs[calls[p].ret].rejectionReason = NULL

\* C26: in every state, every application whose status is SUBMITTED has both a
\* PersonalInfo and a TravelInfo attached.
C26_SubmittedHasInfo ==
  \A a \in 1..Len(apps) :
    apps[a].status = "SUBMITTED" => apps[a].personalInfo /\ apps[a].travelInfo

\* C27: in every state, every application whose status is not PENDING has a
\* submissionDate.
C27_NonPendingHasSubmissionDate ==
  \A a \in 1..Len(apps) :
    apps[a].status # "PENDING" => apps[a].submissionDate # NoDate

\* C28: with the officers all active and starting without applications, and
\* only submissions executed one at a time, the workloads of any two active
\* officers differ by at most 1 in every state.
C28_WorkloadBalanced ==
  \A o \in ActiveOfficers, q \in ActiveOfficers :
    Workload(apps, o) - Workload(apps, q) <= 1

\* two applications have been submitted and each officer has one of them
C28_Witness ==
  /\ \A o \in Officers : active[o] /\ Workload(apps, o) = 1
  /\ \A p \in SeqSlots : Idle(p)

\* C29: once the paymentStatus of a payment is COMPLETED it never becomes
\* FAILED or PENDING again, in whatever order the succeeded and payment_failed
\* events and the updatePaymentStatus calls arrive.
C29_CompletedFinal ==
  [][\A k \in 1..Len(payments) :
       payments[k].paymentStatus = "COMPLETED"
       => payments'[k].paymentStatus = "COMPLETED"
    ]_vars

\* C30 as stated: a verifyOtp with the email and code of a used OTP record
\* fails with BadRequest and writes nothing; a used record stays used; a
\* verifyOtp passes its checks only on an unused record that has not expired;
\* an expired unused record never becomes used.
C30_OtpOnce ==
  [][/\ \A p \in Slots :
          /\ (/\ Called(p, "verifyOtp")
              /\ \E k \in 1..Len(otps) : /\ otps[k].email = calls'[p].user
                                         /\ otps[k].otp = calls'[p].a1
                                         /\ otps[k].used)
             => /\ calls'[p].pc = "idle"
                /\ calls'[p].res = "BadRequest"
                /\ accounts' = accounts /\ otps' = otps
          /\ (Called(p, "verifyOtp") /\ calls'[p].pc = "activate")
             => /\ ~otps[calls'[p].tgt].used
                /\ otps[calls'[p].tgt].expiresAt >= now
     /\ \A k \in 1..Len(otps) :
          /\ otps[k].used => otps'[k].used
          /\ (~otps[k].used /\ otps[k].expiresAt < now) => ~otps'[k].used
    ]_vars

\* C30 amended: as above, but the later verifyOtp is refused when no unused
\* record carries the email and code; a second, unused record with the same
\* email and code is still accepted.
C30_OtpOncePerRecord ==
  [][/\ \A p \in Slots :
          /\ (/\ Called(p, "verifyOtp")
              /\ \E k \in 1..Len(otps) : /\ otps[k].email = calls'[p].user
                                         /\ otps[k].otp = calls'[p].a1
                                         /\ otps[k].used
              /\ \A k \in 1..Len(otps) : (/\ otps[k].email = calls'[p].user
                                          /\ otps[k].otp = calls'[p].a1)
                                         => otps[k].used)
             => /\ calls'[p].pc = "idle"
                /\ calls'[p].res = "BadRequest"
                /\ accounts' = accounts /\ otps' = otps
          /\ (Called(p, "verifyOtp") /\ calls'[p].pc = "activate")
             => /\ ~otps[calls'[p].tgt].used
                /\ otps[calls'[p].tgt].expiresAt >= now
     /\ \A k \in 1..Len(otps) :
          /\ otps[k].used => otps'[k].used
          /\ (~otps[k].used /\ otps[k].expiresAt < now) => ~otps'[k].used
    ]_vars

\* a verifyOtp with the code of a used record has just been refused, the
\* account being active
C30_Witness ==
  \E p \in Slots :
    /\ calls[p].op = "verifyOtp" /\ calls[p].res = "BadRequest"
    /\ \E k \in 1..Len(otps) : /\ otps[k].email = calls[p].user
                               /\ otps[k].otp = calls[p].a1
                               /\ otps[k].used
    /\ \E k \in 1..Len(accounts) : accounts[k].email = calls[p].user /\ accounts[k].isActive

====
